---- MODULE Spec2Model ----
(***************************************************************************)
(* Model of the AudiobookDJ turntable controller (src/script.js).          *)
(*                                                                         *)
(* Units.  Angles are whole degrees in -180..180 (Math.atan2 returns       *)
(* radians; a radian quantity r is represented by the degree count d with  *)
(* r = d * pi / 180).  pi is taken as 355/113, which decides every         *)
(* comparison of the program exactly for whole degrees and the time steps  *)
(* used here.  Times are milliseconds (Date.now()), counted from 1 ms      *)
(* before construction.  Rates are counted in units of 1/RateScale, so     *)
(* that the 1.0x rate is RateScale and one degree of clockwise rotation    *)
(* adds cwRatePerRad * pi / 180 = 71/27120.  Positions are whole seconds.  *)
(*                                                                         *)
(* Rounding.  The program measures a rotation as                           *)
(* Math.abs(deltaAngle) * (180 / Math.PI) in floating point, which for a   *)
(* rotation of a whole number of degrees is that number or a few ulp off   *)
(* it, depending on the pointer's distance from the centre.  A whole       *)
(* degree count therefore stands for a value within a few ulp of it, and   *)
(* the three comparisons an ulp can decide are choices between both        *)
(* outcomes: the wrap of a half turn (computeDelta), the floor of an       *)
(* accumulator at a whole multiple of its step (stepsOf) and the test of   *)
(* the switch counter at its threshold (belowThreshold).                   *)
(***************************************************************************)
EXTENDS Integers, FiniteSets, Sequences, TLC

VARIABLES
    audio,                    \* the Audio element: src, duration, currentTime, playbackRate
    isDragging,
    lastAngle,
    playbackRate,
    cwPlaybackRate,
    isCWScrub,
    cwScrubBelowExitSince,
    cwAngleAccumulatorDeg,
    directionLock,
    switchAccumNegDeg,
    ccwAngleAccumulatorDeg,
    lastDragTime,
    directionDisplay,         \* directionDisplay.textContent
    clock,                    \* the latest value Date.now() returned
    lastOp,                   \* history: the handler that ran last and the path it took
    seekLog,                  \* history: rotation fed to / seconds requested by each step seeker
                              \* since its accumulator was last cleared
    sampleTime                \* history: the time of the latest pointer sample, discarded or not

vars == <<audio, isDragging, lastAngle, playbackRate, cwPlaybackRate,
          isCWScrub, cwScrubBelowExitSince, cwAngleAccumulatorDeg, directionLock,
          switchAccumNegDeg, ccwAngleAccumulatorDeg, lastDragTime, directionDisplay,
          clock, lastOp, seekLog, sampleTime>>

session == <<lastAngle, playbackRate, cwPlaybackRate, isCWScrub, cwScrubBelowExitSince,
             cwAngleAccumulatorDeg, directionLock, switchAccumNegDeg,
             ccwAngleAccumulatorDeg, lastDragTime, directionDisplay>>

---------------------------------------------------------------------------
(* Bounds of the model *)

MaxClock == 401          \* no reading of Date.now() beyond this
MaxDuration == 2         \* the media length reported by loadedmetadata, seconds
MaxTime == 3             \* cap on currentTime while the duration is unknown or 0
MaxRunDeg == 160         \* cap on the rotation logged for one seeker run

ClockSteps == {0, 100, 300}        \* ms between two readings of Date.now()
Angles == {-180, 0, 10, 20, 180}
StartAngles == {0, 20}

SeekAngles == {0, 20, 37, 135}         \* SpecSeek
SeekStartAngles == {0, 37}
SeekClockSteps == {0, 100}
MaxSeekClock == 101

CoarseAngles == {-120, 0, 60, 120}     \* SpecSpeed; -120 and 60 are a half turn apart
SpeedStartAngles == {0}
SpeedClockSteps == {0, 100}
MaxSpeedClock == 1401

JitterAngles == {0, 2, 20}             \* SpecJitter: 2 degrees is inside the deadzone
JitterStartAngles == {0}
JitterClockSteps == {0, 100}
MaxJitterClock == 201

\* the media lengths loadedmetadata reports: an empty media, and one of some seconds
Durations == {0, MaxDuration}

---------------------------------------------------------------------------
(* Configuration fields set by the constructor *)

PiNum == 355
PiDen == 113
RateScale == 27120                     \* 1.0x; chosen so that a degree adds a whole number
NaN == -1                              \* audio.duration before metadata is known

angleDeadzoneRadInv == 20              \* angleDeadzoneRad = 0.05 = 1/20
maxPlaybackRate == 5 * RateScale
cwRatePerDeg == 71                     \* cwRatePerRad * pi/180 = 0.15 * 355/(113*180) = 71/27120
cwScrubEnterVel == 22
cwScrubExitVel == 10
cwScrubExitHoldMs == 300
cwSeekAngleStepDeg == 45
cwSeekStepSeconds == 1
switchThresholdDeg == 20
seekAngleStepDeg == 15
seekStepSeconds == 5

---------------------------------------------------------------------------
(* Pure helpers *)

Abs(x) == IF x < 0 THEN -x ELSE x
Min(a, b) == IF a <= b THEN a ELSE b
Max(a, b) == IF a >= b THEN a ELSE b

\* deltaAngle = angle - lastAngle with the 0/360 wrap handled: the values the
\* floating-point difference can take.  For an exact half turn the difference of
\* the two Math.atan2 values lies within an ulp of pi on either side, so the wrap
\* of lines 155-156 may or may not turn it round; it is exactly +-Math.PI, and
\* left alone, when one of the two angles is 0.
computeDelta(prev, angle) ==
    LET d == angle - prev
        d1 == IF d > 180 THEN d - 360 ELSE d
        d2 == IF d1 < -180 THEN d1 + 360 ELSE d1
    IN  IF Abs(d2) = 180 /\ prev # 0 /\ angle # 0 THEN {-180, 180} ELSE {d2}

\* Math.abs(deltaAngle) * (180 / Math.PI), to the nearest degree
degreesOf(prev, angle) == Abs(CHOOSE d \in computeDelta(prev, angle) : TRUE)

\* Math.abs(deltaAngle) < angleDeadzoneRad, deltaAngle = d * pi / 180
inDeadzone(d) == Abs(d) * PiNum * angleDeadzoneRadInv < 180 * PiDen

\* dtSec = Math.max(0.0001, (now - lastDragTime) / 1000), in units of 0.0001 s
dtSec(now, last) == Max(1, (now - last) * 10)

\* angVel = |deltaAngle| / dtSec = (|d| * 355 * 10000) / (113 * 180 * dt), as a fraction
angVelNum(d) == Abs(d) * ((PiNum * 10000) \div 20)
angVelDen(dt) == ((PiDen * 180) \div 20) * dt

angVelAtMost(d, dt, v) == angVelNum(d) <= v * angVelDen(dt)
angVelAtLeast(d, dt, v) == angVelNum(d) >= v * angVelDen(dt)

---------------------------------------------------------------------------
(* History records, and the initial state: the constructor *)

\* seconds: the seek this handler asked for (secondsFwd or secondsBack), 0 if none
Op(name, path, scrub, seconds) ==
    [op |-> name, path |-> path, scrub |-> scrub, seconds |-> seconds]

NoSeek == [cwDeg |-> 0, cwSec |-> 0, ccwDeg |-> 0, ccwSec |-> 0]

Init ==
    /\ audio = [src |-> FALSE, duration |-> NaN, currentTime |-> 0,
                playbackRate |-> RateScale]
    /\ isDragging = FALSE
    /\ lastAngle = 0
    /\ playbackRate = RateScale
    /\ cwPlaybackRate = RateScale
    /\ isCWScrub = FALSE
    /\ cwScrubBelowExitSince = 0
    /\ cwAngleAccumulatorDeg = 0
    /\ directionLock = 0
    /\ switchAccumNegDeg = 0
    /\ ccwAngleAccumulatorDeg = 0
    /\ lastDragTime = 0
    /\ directionDisplay = "Forward"
    /\ clock = 1
    /\ lastOp = Op("constructor", "none", "none", 0)
    /\ seekLog = NoSeek
    /\ sampleTime = 0

---------------------------------------------------------------------------
(* Transport controls *)

\* reset(): rewind, restore the session fields (isDragging, lastAngle,
\* lastDragTime and audio.playbackRate are not assigned)
resetFields(a) ==
    /\ audio' = [a EXCEPT !.currentTime = 0]
    /\ playbackRate' = RateScale
    /\ ccwAngleAccumulatorDeg' = 0
    /\ cwPlaybackRate' = RateScale
    /\ directionLock' = 0
    /\ switchAccumNegDeg' = 0
    /\ isCWScrub' = FALSE
    /\ cwAngleAccumulatorDeg' = 0
    /\ cwScrubBelowExitSince' = 0
    /\ directionDisplay' = "Forward"
    /\ UNCHANGED <<isDragging, lastAngle, lastDragTime, clock>>

reset ==
    /\ resetFields(audio)
    /\ lastOp' = Op("reset", "none", "none", 0)

\* what audio.load() can leave of the element once audio.src is set: the program
\* does not say; a browser's element forgets its duration and goes back to
\* position 0 and the default rate, an element whose load() does nothing keeps them
loadedElement(a) ==
    {[src |-> TRUE, duration |-> NaN, currentTime |-> 0, playbackRate |-> RateScale],
     [a EXCEPT !.src = TRUE]}

\* loadAudio(event): with a file chosen, audio.src is set and audio.load() runs,
\* then reset(); without a file nothing happens
loadAudio(file) ==
    /\ lastOp' = Op("loadAudio", IF file THEN "loaded" ELSE "ignored", "none", 0)
    /\ IF file
       THEN \E a \in loadedElement(audio) : resetFields(a)
       ELSE UNCHANGED <<audio, isDragging, session, clock>>

\* the element reports the media length; its position is within the media
loadedmetadata(d) ==
    /\ audio.src /\ audio.duration = NaN
    /\ audio' = [audio EXCEPT !.duration = d, !.currentTime = Min(@, d)]
    /\ lastOp' = Op("loadedmetadata", "none", "none", 0)
    /\ UNCHANGED <<isDragging, session, clock>>

---------------------------------------------------------------------------
(* Drag session *)

startDrag(angle, now) ==
    /\ isDragging' = TRUE
    /\ lastDragTime' = now
    /\ clock' = now
    /\ ccwAngleAccumulatorDeg' = 0
    /\ lastAngle' = angle
    /\ lastOp' = Op("startDrag", "none", "none", 0)
    /\ UNCHANGED <<audio, playbackRate, cwPlaybackRate, isCWScrub,
                   cwScrubBelowExitSince, cwAngleAccumulatorDeg, directionLock,
                   switchAccumNegDeg, directionDisplay>>

\* (the variant forgets to clear the direction lock)
stopDragKeepsLock ==
    /\ isDragging' = FALSE
    /\ ccwAngleAccumulatorDeg' = 0
    /\ playbackRate' = RateScale
    /\ audio' = [audio EXCEPT !.playbackRate = RateScale]
    /\ directionDisplay' = "Forward"
    /\ cwPlaybackRate' = RateScale
    /\ switchAccumNegDeg' = 0
    /\ isCWScrub' = FALSE
    /\ cwAngleAccumulatorDeg' = 0
    /\ lastOp' = Op("stopDrag", "none", "none", 0)
    /\ UNCHANGED <<directionLock, lastAngle, cwScrubBelowExitSince, lastDragTime, clock>>

\* (the variant leaves the transport at the rate the drag had set)
stopDragKeepsRate ==
    /\ isDragging' = FALSE
    /\ ccwAngleAccumulatorDeg' = 0
    /\ playbackRate' = RateScale
    /\ directionDisplay' = "Forward"
    /\ cwPlaybackRate' = RateScale
    /\ directionLock' = 0
    /\ switchAccumNegDeg' = 0
    /\ isCWScrub' = FALSE
    /\ cwAngleAccumulatorDeg' = 0
    /\ lastOp' = Op("stopDrag", "none", "none", 0)
    /\ UNCHANGED <<audio, lastAngle, cwScrubBelowExitSince, lastDragTime, clock>>

\* stopDrag(): the drag is released
stopDrag ==
    /\ isDragging' = FALSE
    /\ ccwAngleAccumulatorDeg' = 0
    /\ playbackRate' = RateScale
    /\ audio' = [audio EXCEPT !.playbackRate = RateScale]
    /\ directionDisplay' = "Forward"
    /\ cwPlaybackRate' = RateScale
    /\ directionLock' = 0
    /\ switchAccumNegDeg' = 0
    /\ isCWScrub' = FALSE
    /\ cwAngleAccumulatorDeg' = 0
    /\ lastOp' = Op("stopDrag", "none", "none", 0)
    /\ UNCHANGED <<lastAngle, cwScrubBelowExitSince, lastDragTime, clock>>

\* (the variant writes the rate on every idle tick, without testing it)
updatePlaybackUntested ==
    IF audio.src /\ ~isDragging
    THEN /\ audio' = [audio EXCEPT !.playbackRate = RateScale]
         /\ playbackRate' = RateScale
         /\ directionDisplay' = "Forward"
         /\ lastOp' = Op("animationLoop", "normalized", "none", 0)
         /\ UNCHANGED <<isDragging, lastAngle, cwPlaybackRate, isCWScrub,
                        cwScrubBelowExitSince, cwAngleAccumulatorDeg, directionLock,
                        switchAccumNegDeg, ccwAngleAccumulatorDeg, lastDragTime,
                        clock>>
    ELSE /\ lastOp' = Op("animationLoop", "none", "none", 0)
         /\ UNCHANGED <<audio, isDragging, session, clock>>

\* updatePlayback(): normalise the rate to 1x when not dragging
updatePlayback ==
    IF audio.src /\ ~isDragging /\ audio.playbackRate # RateScale
    THEN /\ audio' = [audio EXCEPT !.playbackRate = RateScale]
         /\ playbackRate' = RateScale
         /\ directionDisplay' = "Forward"
         /\ lastOp' = Op("animationLoop", "normalized", "none", 0)
         /\ UNCHANGED <<isDragging, lastAngle, cwPlaybackRate, isCWScrub,
                        cwScrubBelowExitSince, cwAngleAccumulatorDeg, directionLock,
                        switchAccumNegDeg, ccwAngleAccumulatorDeg, lastDragTime,
                        clock>>
    ELSE /\ lastOp' = Op("animationLoop", "none", "none", 0)
         /\ UNCHANGED <<audio, isDragging, session, clock>>

\* (the variant normalises the rate on every tick, drag or no drag)
animationLoopWhileDragging ==
    IF audio.src /\ audio.playbackRate # RateScale
    THEN /\ audio' = [audio EXCEPT !.playbackRate = RateScale]
         /\ playbackRate' = RateScale
         /\ directionDisplay' = "Forward"
         /\ lastOp' = Op("animationLoop", "normalized", "none", 0)
         /\ UNCHANGED <<isDragging, lastAngle, cwPlaybackRate, isCWScrub,
                        cwScrubBelowExitSince, cwAngleAccumulatorDeg, directionLock,
                        switchAccumNegDeg, ccwAngleAccumulatorDeg, lastDragTime,
                        clock>>
    ELSE /\ lastOp' = Op("animationLoop", "none", "none", 0)
         /\ UNCHANGED <<audio, isDragging, session, clock>>

\* animationLoop(): one animation frame
animationLoop ==
    IF ~isDragging
    THEN updatePlayback
    ELSE /\ lastOp' = Op("animationLoop", "none", "none", 0)
         /\ UNCHANGED <<audio, isDragging, session, clock>>

---------------------------------------------------------------------------
(* drag(e): one pointer-move sample *)

\* (the variant keeps the hold timer running through a fast sample)
scrubHysteresisNoRestart(d, dt, now) ==
    IF isCWScrub
    THEN IF angVelAtMost(d, dt, cwScrubExitVel)
         THEN LET since == IF cwScrubBelowExitSince = 0 THEN now
                           ELSE cwScrubBelowExitSince
              IN  IF now - since >= cwScrubExitHoldMs
                  THEN [scrub |-> FALSE, acc |-> 0, since |-> 0, step |-> "exit"]
                  ELSE [scrub |-> TRUE, acc |-> cwAngleAccumulatorDeg,
                        since |-> since, step |-> "hold"]
         ELSE [scrub |-> TRUE, acc |-> cwAngleAccumulatorDeg,
               since |-> cwScrubBelowExitSince, step |-> "restart"]
    ELSE IF angVelAtLeast(d, dt, cwScrubEnterVel)
         THEN [scrub |-> TRUE, acc |-> 0, since |-> 0, step |-> "enter"]
         ELSE [scrub |-> FALSE, acc |-> cwAngleAccumulatorDeg,
               since |-> cwScrubBelowExitSince, step |-> "none"]

\* (the variant enters scrub mode at the exit velocity)
scrubHysteresisEnterAtExitVel(d, dt, now) ==
    IF isCWScrub
    THEN IF angVelAtMost(d, dt, cwScrubExitVel)
         THEN LET since == IF cwScrubBelowExitSince = 0 THEN now
                           ELSE cwScrubBelowExitSince
              IN  IF now - since >= cwScrubExitHoldMs
                  THEN [scrub |-> FALSE, acc |-> 0, since |-> 0, step |-> "exit"]
                  ELSE [scrub |-> TRUE, acc |-> cwAngleAccumulatorDeg,
                        since |-> since, step |-> "hold"]
         ELSE [scrub |-> TRUE, acc |-> cwAngleAccumulatorDeg, since |-> 0,
               step |-> "restart"]
    ELSE IF angVelAtLeast(d, dt, cwScrubExitVel)
         THEN [scrub |-> TRUE, acc |-> 0, since |-> 0, step |-> "enter"]
         ELSE [scrub |-> FALSE, acc |-> cwAngleAccumulatorDeg,
               since |-> cwScrubBelowExitSince, step |-> "none"]

\* the speed/seek hysteresis of the clockwise branch: the scrub flag, the exit
\* hold timer and the forward accumulator after it, and the path taken
scrubHysteresis(d, dt, now) ==
    IF isCWScrub
    THEN IF angVelAtMost(d, dt, cwScrubExitVel)
         THEN LET since == IF cwScrubBelowExitSince = 0 THEN now
                           ELSE cwScrubBelowExitSince
              IN  IF now - since >= cwScrubExitHoldMs
                  THEN [scrub |-> FALSE, acc |-> 0, since |-> 0, step |-> "exit"]
                  ELSE [scrub |-> TRUE, acc |-> cwAngleAccumulatorDeg,
                        since |-> since, step |-> "hold"]
         ELSE [scrub |-> TRUE, acc |-> cwAngleAccumulatorDeg, since |-> 0,
               step |-> "restart"]
    ELSE IF angVelAtLeast(d, dt, cwScrubEnterVel)
         THEN [scrub |-> TRUE, acc |-> 0, since |-> 0, step |-> "enter"]
         ELSE [scrub |-> FALSE, acc |-> cwAngleAccumulatorDeg,
               since |-> cwScrubBelowExitSince, step |-> "none"]

\* (the variant takes one step at a time)
stepsOfOne(acc, stepDeg) == {IF acc >= stepDeg THEN 1 ELSE 0}

\* steps = Math.floor(accumulator / stepSizeDeg), 0 when the accumulator is below
\* the step: the values the floating-point accumulator can give.  The accumulator
\* is a sum of Math.abs(deltaAngle) * (180 / Math.PI); where the sum comes to a
\* whole multiple of the step in exact arithmetic, the floating-point sum may fall
\* a few ulp short of it and the floor be one less (the accumulator then keeps a
\* whole step, which stands for a value just below it).
stepsOf(acc, stepDeg) ==
    IF acc > 0 /\ acc % stepDeg = 0
    THEN {acc \div stepDeg - 1, acc \div stepDeg}
    ELSE {acc \div stepDeg}

\* switchAccumNegDeg < switchThresholdDeg, as the floating-point total can decide
\* it: a total that comes to the threshold exactly may fall an ulp short of it
belowThreshold(total, threshold) ==
    IF total = threshold THEN {TRUE, FALSE} ELSE {total < threshold}

\* (the variant resets the accumulator outright when a step is taken)
carryNothing(acc, steps, stepDeg) == 0

\* accumulator -= steps * stepSizeDeg: the remainder carried to the next sample
carry(acc, steps, stepDeg) == acc - steps * stepDeg

\* Math.min(audio.duration || Infinity, audio.currentTime + secondsFwd)
forwardTarget(duration, currentTime, secondsFwd) ==
    IF duration = NaN \/ duration = 0
    THEN currentTime + secondsFwd
    ELSE Min(duration, currentTime + secondsFwd)

\* Math.max(0, audio.currentTime - secondsBack)
backwardTarget(currentTime, secondsBack) == Max(0, currentTime - secondsBack)

\* (the variant does not clamp at maxPlaybackRate)
speedUpNoClamp(rate, d) == rate + Abs(d) * cwRatePerDeg

\* Math.min(maxPlaybackRate, cwPlaybackRate + |deltaAngle| * cwRatePerRad)
speedUp(rate, d) == Min(maxPlaybackRate, rate + Abs(d) * cwRatePerDeg)

\* if (!this.isDragging || !this.audio.src) return;
dragIgnored ==
    /\ lastOp' = Op("drag", "ignored", "none", 0)
    /\ UNCHANGED <<audio, isDragging, session, clock>>

\* (the variant takes the discarded sample for the end of a counter-clockwise run)
dragDeadzoneClearsSwitch(angle) ==
    /\ lastAngle' = angle
    /\ switchAccumNegDeg' = 0
    /\ lastOp' = Op("drag", "deadzone", "none", 0)
    /\ UNCHANGED <<audio, isDragging, playbackRate, cwPlaybackRate,
                   isCWScrub, cwScrubBelowExitSince, cwAngleAccumulatorDeg,
                   directionLock, ccwAngleAccumulatorDeg,
                   lastDragTime, directionDisplay, clock>>

\* |deltaAngle| below the deadzone: only lastAngle follows the sample
dragDeadzone(angle) ==
    /\ lastAngle' = angle
    /\ lastOp' = Op("drag", "deadzone", "none", 0)
    /\ UNCHANGED <<audio, isDragging, playbackRate, cwPlaybackRate,
                   isCWScrub, cwScrubBelowExitSince, cwAngleAccumulatorDeg,
                   directionLock, switchAccumNegDeg, ccwAngleAccumulatorDeg,
                   lastDragTime, directionDisplay, clock>>

\* deltaAngle > 0
dragCW(angle, d, now) ==
    LET h == scrubHysteresis(d, dtSec(now, lastDragTime), now)
    IN  /\ directionLock' = 1
        /\ switchAccumNegDeg' = 0
        /\ ccwAngleAccumulatorDeg' = 0
        /\ isCWScrub' = h.scrub
        /\ cwScrubBelowExitSince' = h.since
        /\ IF h.scrub
           THEN \E steps \in stepsOf(h.acc + Abs(d), cwSeekAngleStepDeg) :
                LET acc == h.acc + Abs(d)
                    secondsFwd == steps * cwSeekStepSeconds
                IN  /\ playbackRate' = RateScale
                    /\ directionDisplay' = "Clockwise (Seek)"
                    /\ IF steps >= 1
                       THEN /\ audio' = [audio EXCEPT
                                  !.playbackRate = RateScale,
                                  !.currentTime = forwardTarget(audio.duration, @, secondsFwd)]
                            /\ cwAngleAccumulatorDeg' = carry(acc, steps, cwSeekAngleStepDeg)
                            /\ lastOp' = Op("drag", "cwSeek", h.step, secondsFwd)
                       ELSE /\ audio' = [audio EXCEPT !.playbackRate = RateScale]
                            /\ cwAngleAccumulatorDeg' = acc
                            /\ lastOp' = Op("drag", "cwSeek", h.step, 0)
                    /\ UNCHANGED cwPlaybackRate
           ELSE /\ cwPlaybackRate' = speedUp(cwPlaybackRate, d)
                /\ playbackRate' = cwPlaybackRate'
                /\ audio' = [audio EXCEPT !.playbackRate = cwPlaybackRate']
                /\ directionDisplay' = "Clockwise (Speed)"
                /\ cwAngleAccumulatorDeg' = h.acc
                /\ lastOp' = Op("drag", "cwSpeed", h.step, 0)
        /\ lastDragTime' = now
        /\ clock' = now
        /\ lastAngle' = angle
        /\ UNCHANGED isDragging

\* deltaAngle < 0 while locked clockwise with a raised speed, below the switch
\* threshold: the movement is ignored
dragCCWHold(angle, d, now) ==
    /\ switchAccumNegDeg' = switchAccumNegDeg + Abs(d)
    /\ lastDragTime' = now
    /\ clock' = now
    /\ lastAngle' = angle
    /\ lastOp' = Op("drag", "ccwHold", "none", 0)
    /\ UNCHANGED <<audio, isDragging, playbackRate, cwPlaybackRate,
                   isCWScrub, cwScrubBelowExitSince, cwAngleAccumulatorDeg,
                   directionLock, ccwAngleAccumulatorDeg, directionDisplay>>

\* (the variant keeps the accumulated speed through a confirmed switch)
dragCCWSeekKeepsRate(angle, d, now, switch) ==
    \E steps \in stepsOf(ccwAngleAccumulatorDeg + Abs(d), seekAngleStepDeg) :
    LET acc == ccwAngleAccumulatorDeg + Abs(d)
        secondsBack == steps * seekStepSeconds
        path == IF switch THEN "ccwSwitch" ELSE "ccwSeek"
    IN  /\ IF switch
           THEN /\ switchAccumNegDeg' = switchAccumNegDeg + Abs(d)
                /\ directionLock' = -1
                /\ isCWScrub' = FALSE
                /\ cwAngleAccumulatorDeg' = 0
                /\ cwScrubBelowExitSince' = 0
                /\ UNCHANGED cwPlaybackRate
           ELSE UNCHANGED <<switchAccumNegDeg, directionLock, cwPlaybackRate,
                            isCWScrub, cwAngleAccumulatorDeg, cwScrubBelowExitSince>>
        /\ playbackRate' = RateScale
        /\ directionDisplay' = "Counter-Clockwise (Seek)"
        /\ IF steps >= 1
           THEN /\ audio' = [audio EXCEPT
                      !.playbackRate = RateScale,
                      !.currentTime = backwardTarget(@, secondsBack)]
                /\ ccwAngleAccumulatorDeg' = carry(acc, steps, seekAngleStepDeg)
                /\ lastOp' = Op("drag", path, "none", secondsBack)
           ELSE /\ audio' = [audio EXCEPT !.playbackRate = RateScale]
                /\ ccwAngleAccumulatorDeg' = acc
                /\ lastOp' = Op("drag", path, "none", 0)
        /\ lastDragTime' = now
        /\ clock' = now
        /\ lastAngle' = angle
        /\ UNCHANGED isDragging

\* deltaAngle < 0, processed as a backward seek; switch tells whether the
\* direction switch was confirmed by this sample
dragCCWSeek(angle, d, now, switch) ==
    \E steps \in stepsOf(ccwAngleAccumulatorDeg + Abs(d), seekAngleStepDeg) :
    LET acc == ccwAngleAccumulatorDeg + Abs(d)
        secondsBack == steps * seekStepSeconds
        path == IF switch THEN "ccwSwitch" ELSE "ccwSeek"
    IN  /\ IF switch
           THEN /\ switchAccumNegDeg' = switchAccumNegDeg + Abs(d)
                /\ directionLock' = -1
                /\ cwPlaybackRate' = RateScale
                /\ isCWScrub' = FALSE
                /\ cwAngleAccumulatorDeg' = 0
                /\ cwScrubBelowExitSince' = 0
           ELSE UNCHANGED <<switchAccumNegDeg, directionLock, cwPlaybackRate,
                            isCWScrub, cwAngleAccumulatorDeg, cwScrubBelowExitSince>>
        /\ playbackRate' = RateScale
        /\ directionDisplay' = "Counter-Clockwise (Seek)"
        /\ IF steps >= 1
           THEN /\ audio' = [audio EXCEPT
                      !.playbackRate = RateScale,
                      !.currentTime = backwardTarget(@, secondsBack)]
                /\ ccwAngleAccumulatorDeg' = carry(acc, steps, seekAngleStepDeg)
                /\ lastOp' = Op("drag", path, "none", secondsBack)
           ELSE /\ audio' = [audio EXCEPT !.playbackRate = RateScale]
                /\ ccwAngleAccumulatorDeg' = acc
                /\ lastOp' = Op("drag", path, "none", 0)
        /\ lastDragTime' = now
        /\ clock' = now
        /\ lastAngle' = angle
        /\ UNCHANGED isDragging

\* (the variant compares each sample, not the accumulated total, with the threshold)
dragCCWPerSample(angle, d, now) ==
    IF directionLock = 1 /\ cwPlaybackRate > RateScale
    THEN IF Abs(d) < switchThresholdDeg
         THEN dragCCWHold(angle, d, now)
         ELSE dragCCWSeek(angle, d, now, TRUE)
    ELSE dragCCWSeek(angle, d, now, FALSE)

\* (the variant switches on the first counter-clockwise sample)
dragCCWNoHysteresis(angle, d, now) ==
    IF directionLock = 1 /\ cwPlaybackRate > RateScale
    THEN dragCCWSeek(angle, d, now, TRUE)
    ELSE dragCCWSeek(angle, d, now, FALSE)

\* deltaAngle < 0: the direction-switch hysteresis decides
dragCCW(angle, d, now) ==
    IF directionLock = 1 /\ cwPlaybackRate > RateScale
    THEN \E below \in belowThreshold(switchAccumNegDeg + Abs(d), switchThresholdDeg) :
             IF below
             THEN dragCCWHold(angle, d, now)
             ELSE dragCCWSeek(angle, d, now, TRUE)
    ELSE dragCCWSeek(angle, d, now, FALSE)

drag(angle, now) ==
    IF ~isDragging \/ ~audio.src
    THEN dragIgnored
    ELSE \E deltaAngle \in computeDelta(lastAngle, angle) :
             IF inDeadzone(deltaAngle)
             THEN dragDeadzone(angle)
             ELSE IF deltaAngle > 0
                  THEN dragCW(angle, deltaAngle, now)
                  ELSE dragCCW(angle, deltaAngle, now)

---------------------------------------------------------------------------
(* Specifications *)

\* the caps that keep the model finite
Bounded(maxClock) ==
    /\ clock' <= maxClock
    /\ audio'.currentTime <= MaxTime

Load == \E file \in BOOLEAN : loadAudio(file)
Metadata == \E d \in Durations : loadedmetadata(d)
StartDragOver(angles, steps, maxClock) ==
    \E a \in angles, dt \in steps : startDrag(a, clock + dt) /\ Bounded(maxClock)
DragOver(angles, steps, maxClock) ==
    \E a \in angles, dt \in steps : drag(a, clock + dt) /\ Bounded(maxClock)

\* the history of seeks and sample times is not kept
Quiet == UNCHANGED <<seekLog, sampleTime>>

\* the seek log follows the step seekers: a run ends where the program clears the
\* seeker's accumulator, and a sample handled by a seeker adds its rotation and
\* the seconds it asked for
LogSeek ==
    LET deg == degreesOf(lastAngle, lastAngle')
        loaded == lastOp'.op = "loadAudio" /\ lastOp'.path = "loaded"
        cwCleared == \/ lastOp'.op \in {"stopDrag", "reset"}
                     \/ loaded
                     \/ lastOp'.scrub \in {"enter", "exit"}
                     \/ lastOp'.path = "ccwSwitch"
        ccwCleared == \/ lastOp'.op \in {"stopDrag", "reset", "startDrag"}
                      \/ loaded
                      \/ lastOp'.path \in {"cwSeek", "cwSpeed"}
        cw == lastOp'.path = "cwSeek"
        ccw == lastOp'.path \in {"ccwSeek", "ccwSwitch"}
    IN  /\ seekLog' =
              [cwDeg  |-> (IF cwCleared THEN 0 ELSE seekLog.cwDeg) + (IF cw THEN deg ELSE 0),
               cwSec  |-> (IF cwCleared THEN 0 ELSE seekLog.cwSec)
                             + (IF cw THEN lastOp'.seconds ELSE 0),
               ccwDeg |-> (IF ccwCleared THEN 0 ELSE seekLog.ccwDeg)
                             + (IF ccw THEN deg ELSE 0),
               ccwSec |-> (IF ccwCleared THEN 0 ELSE seekLog.ccwSec)
                             + (IF ccw THEN lastOp'.seconds ELSE 0)]
        /\ seekLog'.cwDeg <= MaxRunDeg
        /\ seekLog'.ccwDeg <= MaxRunDeg
        /\ UNCHANGED sampleTime

\* every handler, over a mixed set of pointer angles
Next ==
    \/ Load /\ Quiet
    \/ Metadata /\ Quiet
    \/ reset /\ Quiet
    \/ StartDragOver(StartAngles, ClockSteps, MaxClock) /\ Quiet
    \/ DragOver(Angles, ClockSteps, MaxClock) /\ Quiet
    \/ stopDrag /\ Quiet
    \/ animationLoop /\ Quiet

Spec == Init /\ [][Next]_vars

\* every handler, with the seek log kept, over angles that leave remainders in the
\* step accumulators
NextSeek ==
    \/ Load /\ LogSeek
    \/ Metadata /\ LogSeek
    \/ reset /\ LogSeek
    \/ StartDragOver(SeekStartAngles, SeekClockSteps, MaxSeekClock) /\ LogSeek
    \/ DragOver(SeekAngles, SeekClockSteps, MaxSeekClock) /\ LogSeek
    \/ stopDrag /\ LogSeek
    \/ animationLoop /\ LogSeek

SpecSeek == Init /\ [][NextSeek]_vars

\* every handler, over rotations of a sixth of a turn and more, long enough to reach
\* the top speed, with one pair of pointer angles a half turn apart
NextSpeed ==
    \/ Load /\ Quiet
    \/ Metadata /\ Quiet
    \/ reset /\ Quiet
    \/ StartDragOver(SpeedStartAngles, SpeedClockSteps, MaxSpeedClock) /\ Quiet
    \/ DragOver(CoarseAngles, SpeedClockSteps, MaxSpeedClock) /\ Quiet
    \/ stopDrag /\ Quiet
    \/ animationLoop /\ Quiet

SpecSpeed == Init /\ [][NextSpeed]_vars

\* pointer events stamped with their time: every sample, discarded or not, comes
\* no earlier than the one before it, and sampleTime records when it came
latest == Max(clock, sampleTime)
StartDragAt(angles, steps, maxClock) ==
    \E a \in angles, dt \in steps :
        /\ startDrag(a, latest + dt)
        /\ sampleTime' = latest + dt
        /\ sampleTime' <= maxClock
        /\ Bounded(maxClock)
        /\ UNCHANGED seekLog
DragAt(angles, steps, maxClock) ==
    \E a \in angles, dt \in steps :
        /\ drag(a, latest + dt)
        /\ sampleTime' = latest + dt
        /\ sampleTime' <= maxClock
        /\ Bounded(maxClock)
        /\ UNCHANGED seekLog

\* every handler, over pointer angles that differ by less than the deadzone
NextJitter ==
    \/ Load /\ Quiet
    \/ Metadata /\ Quiet
    \/ reset /\ Quiet
    \/ StartDragAt(JitterStartAngles, JitterClockSteps, MaxJitterClock)
    \/ DragAt(JitterAngles, JitterClockSteps, MaxJitterClock)
    \/ stopDrag /\ Quiet
    \/ animationLoop /\ Quiet

SpecJitter == Init /\ [][NextJitter]_vars

---------------------------------------------------------------------------
(* Claims *)

\* what the step just taken did, read off the state pair
sampleDeg == degreesOf(lastAngle, lastAngle')
sampleDt == dtSec(clock', lastDragTime)
acceptedCW == lastOp'.op = "drag" /\ lastOp'.path \in {"cwSeek", "cwSpeed"}
acceptedCCW == lastOp'.op = "drag" /\ lastOp'.path \in {"ccwHold", "ccwSeek", "ccwSwitch"}
explicitReset ==
    lastOp'.op = "reset" \/ (lastOp'.op = "loadAudio" /\ lastOp'.path = "loaded")

\* C1: after stopDrag, whatever the session was, every rate (playbackRate,
\* audio.playbackRate, cwPlaybackRate) is 1.0, directionLock is 0, the scrub flag
\* is false and the three accumulators are 0.
C1_StopDragResets ==
    lastOp.op = "stopDrag" =>
        /\ playbackRate = RateScale
        /\ audio.playbackRate = RateScale
        /\ cwPlaybackRate = RateScale
        /\ directionLock = 0
        /\ ~isCWScrub
        /\ cwAngleAccumulatorDeg = 0
        /\ ccwAngleAccumulatorDeg = 0
        /\ switchAccumNegDeg = 0

\* a drag that had scrubbed forward and started the exit hold has just been released
C1_Witness ==
    /\ lastOp.op = "stopDrag"
    /\ cwScrubBelowExitSince # 0
    /\ audio.currentTime > 0

\* C2: whenever the last sample was counter-clockwise and was processed as a
\* backward seek, the scrub flag isCWScrub is false.
C2_NoScrubWhileSeekingBack ==
    (lastOp.op = "drag" /\ lastOp.path \in {"ccwSeek", "ccwSwitch"}) => ~isCWScrub

\* C3: with directionLock = 1 and cwPlaybackRate > 1.0, an accepted counter-clockwise
\* sample adds its degrees to switchAccumNegDeg (which every accepted clockwise
\* sample clears), and it switches the lock to -1 and resets cwPlaybackRate to 1.0
\* exactly when the total has reached switchThresholdDeg; below the threshold the
\* lock, the rates, the scrub state, the seek accumulators and the transport are
\* unchanged and no seek is asked for.  The total is the floating-point sum the
\* program keeps: one that comes to the threshold in whole degrees has reached it
\* or is an ulp short of it, so a sample switches only with a total of at least
\* the threshold, always with a total above it, and never with a total below it.
C3_SwitchThreshold ==
    [][ /\ acceptedCW => switchAccumNegDeg' = 0
        /\ (acceptedCCW /\ directionLock = 1 /\ cwPlaybackRate > RateScale) =>
              LET total == switchAccumNegDeg + sampleDeg
                  switched == directionLock' = -1 /\ cwPlaybackRate' = RateScale
              IN  /\ switchAccumNegDeg' = total
                  /\ total > switchThresholdDeg => switched
                  /\ total < switchThresholdDeg => ~switched
                  /\ switched => lastOp'.path = "ccwSwitch"
                  /\ ~switched =>
                        /\ lastOp'.path = "ccwHold" /\ lastOp'.seconds = 0
                        /\ UNCHANGED <<directionLock, cwPlaybackRate, playbackRate, audio,
                                       isCWScrub, cwScrubBelowExitSince,
                                       cwAngleAccumulatorDeg, ccwAngleAccumulatorDeg>>
      ]_vars

\* the switch was confirmed by a total that no single sample reaches
C3_Witness ==
    /\ lastOp.op = "drag" /\ lastOp.path = "ccwSwitch"
    /\ directionLock = -1
    /\ switchAccumNegDeg = 30

\* C4: in scrub mode, an accepted clockwise sample leaves scrub mode (for speed mode)
\* exactly when its velocity is <= cwScrubExitVel and the hold timer, started by
\* the first such sample, has run for cwScrubExitHoldMs; a sample faster than
\* cwScrubExitVel clears the timer, a slow one that does not exit keeps its start;
\* and while the session stays in scrub mode nothing else moves the timer.
C4_ScrubExitHold ==
    [][ /\ (acceptedCW /\ isCWScrub) =>
              LET slow == angVelAtMost(sampleDeg, sampleDt, cwScrubExitVel)
                  since == IF cwScrubBelowExitSince = 0 THEN clock'
                           ELSE cwScrubBelowExitSince
              IN  /\ ~isCWScrub' <=> (slow /\ clock' - since >= cwScrubExitHoldMs)
                  /\ ~isCWScrub' => lastOp'.path = "cwSpeed"
                  /\ ~slow => cwScrubBelowExitSince' = 0
                  /\ (slow /\ isCWScrub') => cwScrubBelowExitSince' = since
        /\ (isCWScrub /\ isCWScrub' /\ cwScrubBelowExitSince' # cwScrubBelowExitSince)
              => acceptedCW
      ]_vars

\* the hold has completed: a slow clockwise sample has taken the session out of
\* scrub mode
C4_Witness ==
    /\ lastOp.op = "drag" /\ lastOp.scrub = "exit"
    /\ ~isCWScrub /\ isDragging
    /\ directionDisplay = "Clockwise (Speed)"

\* C5: cwPlaybackRate stays within [1.0, maxPlaybackRate]; an accepted clockwise
\* sample never lowers it; a step that lowers it is stopDrag, an explicit reset or
\* a confirmed direction switch, and leaves it at exactly 1.0.
C5_RateMonotone ==
    /\ [](cwPlaybackRate >= RateScale /\ cwPlaybackRate <= maxPlaybackRate)
    /\ [][ /\ acceptedCW => cwPlaybackRate' >= cwPlaybackRate
           /\ cwPlaybackRate' < cwPlaybackRate =>
                 /\ cwPlaybackRate' = RateScale
                 /\ \/ lastOp'.op = "stopDrag"
                    \/ explicitReset
                    \/ lastOp'.op = "drag" /\ lastOp'.path = "ccwSwitch"
         ]_vars

\* a clockwise sample in speed mode has reached the top rate
C5_Witness ==
    /\ lastOp.op = "drag" /\ lastOp.path = "cwSpeed"
    /\ cwPlaybackRate = maxPlaybackRate

\* the seconds asked for and the accumulator left by a total rotation that the
\* program has summed in floating point: floor and remainder of the total, where a
\* total that comes to a whole multiple of the step may have been summed a few ulp
\* short of it (one step fewer, and all but a whole step left in the accumulator)
quantized(deg, seconds, acc, stepDeg, stepSeconds) ==
    \/ /\ seconds = stepSeconds * (deg \div stepDeg)
       /\ acc = deg % stepDeg
    \/ /\ deg > 0 /\ deg % stepDeg = 0
       /\ seconds = stepSeconds * ((deg \div stepDeg) - 1)
       /\ acc = stepDeg

\* C6: over a run of samples fed to a step seeker since its accumulator was last
\* cleared, with total rotation D, the seconds asked for are
\* stepSeconds * floor(D / stepSizeDeg) and the accumulator holds D mod stepSizeDeg;
\* for the backward seeker (15 degrees, 5 s) and the forward one (45 degrees, 1 s).
\* D is the total as the program sums it.
C6_StepQuantization ==
    /\ quantized(seekLog.ccwDeg, seekLog.ccwSec, ccwAngleAccumulatorDeg,
                 seekAngleStepDeg, seekStepSeconds)
    /\ quantized(seekLog.cwDeg, seekLog.cwSec, cwAngleAccumulatorDeg,
                 cwSeekAngleStepDeg, cwSeekStepSeconds)

\* 37 degrees of backward rotation in two samples: two steps, 10 s, remainder 7
C6_Witness ==
    /\ seekLog.ccwDeg = 37
    /\ seekLog.ccwSec = 10
    /\ ccwAngleAccumulatorDeg = 7
    /\ lastOp.seconds = 5

\* what a step feeds to each accumulator
fedCW == IF lastOp'.op = "drag" /\ lastOp'.path = "cwSeek" THEN sampleDeg ELSE 0
fedCCW == IF lastOp'.op = "drag" /\ lastOp'.path \in {"ccwSeek", "ccwSwitch"}
          THEN sampleDeg ELSE 0
wholeSteps(before, fed, after, stepDeg) ==
    before + fed >= after /\ (before + fed - after) % stepDeg = 0

\* C7 as stated: the accumulators are never negative, and a step takes from an
\* accumulator (beyond the rotation it adds) only whole multiples of its step size.
C7_OnlyWholeSteps ==
    /\ [](cwAngleAccumulatorDeg >= 0 /\ ccwAngleAccumulatorDeg >= 0)
    /\ [][ /\ wholeSteps(cwAngleAccumulatorDeg, fedCW, cwAngleAccumulatorDeg',
                         cwSeekAngleStepDeg)
           /\ wholeSteps(ccwAngleAccumulatorDeg, fedCCW, ccwAngleAccumulatorDeg',
                         seekAngleStepDeg)
         ]_vars

\* the steps by which the program clears the forward accumulator: entering and
\* leaving scrub mode, a confirmed direction switch, stopDrag and an explicit reset
clearsCW ==
    \/ lastOp'.op = "drag" /\ lastOp'.scrub \in {"enter", "exit"}
    \/ lastOp'.op = "drag" /\ lastOp'.path = "ccwSwitch"
    \/ lastOp'.op = "stopDrag"
    \/ explicitReset

\* the steps by which the program clears the backward accumulator: startDrag,
\* every accepted clockwise sample, stopDrag and an explicit reset
clearsCCW ==
    \/ lastOp'.op = "startDrag"
    \/ acceptedCW
    \/ lastOp'.op = "stopDrag"
    \/ explicitReset

\* C7 amended: the accumulators are never negative, and a step takes from an
\* accumulator (beyond the rotation it adds) only whole multiples of its step
\* size, unless it is one of the steps that clear that accumulator, which leave in
\* it what the step itself has fed less whole multiples of the step size (nothing,
\* but for the sample that enters scrub mode); no other step, a seek step least of
\* all, drops a remainder.
C7_WholeStepsOrCleared ==
    /\ [](cwAngleAccumulatorDeg >= 0 /\ ccwAngleAccumulatorDeg >= 0)
    /\ [][ /\ \/ wholeSteps(cwAngleAccumulatorDeg, fedCW, cwAngleAccumulatorDeg',
                            cwSeekAngleStepDeg)
              \/ clearsCW /\ wholeSteps(0, fedCW, cwAngleAccumulatorDeg',
                                         cwSeekAngleStepDeg)
           /\ \/ wholeSteps(ccwAngleAccumulatorDeg, fedCCW, ccwAngleAccumulatorDeg',
                            seekAngleStepDeg)
              \/ clearsCCW /\ wholeSteps(0, fedCCW, ccwAngleAccumulatorDeg',
                                          seekAngleStepDeg)
         ]_vars

\* a backward seek has taken its steps and carried a remainder
C7_Witness ==
    /\ lastOp.op = "drag" /\ lastOp.path = "ccwSeek"
    /\ lastOp.seconds > 0
    /\ ccwAngleAccumulatorDeg > 0

\* C8: with the media duration known, the transport position is within
\* [0, duration].
C8_PositionInRange ==
    audio.duration # NaN =>
        (audio.currentTime >= 0 /\ audio.currentTime <= audio.duration)

\* C9: a drag sample taken with no media loaded or with the duration unknown
\* leaves the transport (position and rate) unchanged: no seek and no rate
\* command is issued.
C9_NoMediaOrNoDurationNoOp ==
    [][ (lastOp'.op = "drag" /\ (~audio.src \/ audio.duration = NaN)) => audio' = audio
      ]_vars

\* C10: an accepted sample whose elapsed time since the previous sample is <= 0
\* does not switch isCWScrub from false to true.
C10_DegenerateTimingNoScrub ==
    [][ (lastOp'.op = "drag" /\ lastOp'.path \notin {"ignored", "deadzone"}
           /\ clock' - lastDragTime <= 0)
        => ~(~isCWScrub /\ isCWScrub')
      ]_vars

\* a step that hands drag a sample it discards for being inside the deadzone
deadzoneSample ==
    /\ lastOp'.op = "drag"
    /\ isDragging /\ audio.src
    /\ inDeadzone(sampleDeg)

\* C11: a sample whose wrap-corrected |delta| is below the deadzone changes none of
\* cwPlaybackRate, the rates (playbackRate, audio.playbackRate), the transport
\* position, the three accumulators, the scrub flag and directionLock.
C11_DeadzoneFrame ==
    [][ deadzoneSample =>
            UNCHANGED <<cwPlaybackRate, playbackRate, audio, cwAngleAccumulatorDeg,
                        ccwAngleAccumulatorDeg, switchAccumNegDeg, isCWScrub,
                        directionLock>>
      ]_vars

\* a 2 degree sample was discarded in the middle of a held counter-clockwise run,
\* with the speed raised and 18 degrees on the switch counter
C11_Witness ==
    /\ lastOp.op = "drag" /\ lastOp.path = "deadzone"
    /\ lastAngle = 0
    /\ switchAccumNegDeg = 18
    /\ cwPlaybackRate > RateScale

\* C12: an animation tick with no drag active and media loaded leaves the transport
\* rate at 1.0; when the rate was not 1.0 the tick commands it (the rate write,
\* with the controller's rate field and display following, and nothing else); when
\* the rate already is 1.0 the tick changes nothing, neither the transport nor any
\* field of the controller, and commands nothing.
C12_IdleTickNormalizes ==
    [][ (lastOp'.op = "animationLoop" /\ ~isDragging /\ audio.src) =>
            /\ audio'.playbackRate = RateScale
            /\ audio.playbackRate # RateScale =>
                   /\ lastOp'.path = "normalized"
                   /\ audio' = [audio EXCEPT !.playbackRate = RateScale]
                   /\ playbackRate' = RateScale
                   /\ directionDisplay' = "Forward"
                   /\ UNCHANGED <<isDragging, lastAngle, cwPlaybackRate, isCWScrub,
                                  cwScrubBelowExitSince, cwAngleAccumulatorDeg,
                                  directionLock, switchAccumNegDeg,
                                  ccwAngleAccumulatorDeg, lastDragTime, clock>>
            /\ audio.playbackRate = RateScale =>
                   /\ lastOp'.path = "none"
                   /\ UNCHANGED <<audio, isDragging, session, clock>>
      ]_vars

\* a tick after a released drag that had scrubbed forward and started the exit
\* hold: the rate is 1.0 and the tick has commanded nothing
C12_Witness ==
    /\ lastOp.op = "animationLoop" /\ lastOp.path = "none"
    /\ ~isDragging /\ audio.src
    /\ audio.playbackRate = RateScale
    /\ audio.currentTime > 0
    /\ cwScrubBelowExitSince # 0

\* C13: an animation tick taken while a drag is active changes nothing: rates, lock,
\* scrub flag, accumulators, timestamps and the transport are as before the tick.
C13_TickNoOpWhileDragging ==
    [][ (lastOp'.op = "animationLoop" /\ isDragging) =>
            UNCHANGED <<audio, isDragging, session, clock>>
      ]_vars

\* a tick in the middle of a drag that has raised the transport rate
C13_Witness ==
    /\ lastOp.op = "animationLoop"
    /\ isDragging
    /\ audio.playbackRate > RateScale
    /\ directionDisplay = "Clockwise (Speed)"

\* C14: after startDrag, whatever came before (a drag that stopDrag never ended
\* included), the three accumulators are 0 and directionLock is 0.
C14_StartDragClears ==
    lastOp.op = "startDrag" =>
        /\ cwAngleAccumulatorDeg = 0
        /\ ccwAngleAccumulatorDeg = 0
        /\ switchAccumNegDeg = 0
        /\ directionLock = 0

\* C15: after an explicit reset (the reset button, or a file loaded), whatever the
\* state it was taken in, the transport position is 0, audio.playbackRate is 1.0,
\* the lock is 0, cwPlaybackRate is 1.0, the scrub flag is false, the accumulators
\* are 0 and no drag is active.
C15_ResetRestoresDefaults ==
    (lastOp.op = "reset" \/ (lastOp.op = "loadAudio" /\ lastOp.path = "loaded")) =>
        /\ audio.currentTime = 0
        /\ audio.playbackRate = RateScale
        /\ directionLock = 0
        /\ cwPlaybackRate = RateScale
        /\ ~isCWScrub
        /\ cwAngleAccumulatorDeg = 0
        /\ ccwAngleAccumulatorDeg = 0
        /\ switchAccumNegDeg = 0
        /\ ~isDragging

\* C16: a sample discarded by the deadzone advances the last-sample timestamp
\* lastDragTime to the time of that sample, so that the next accepted sample's
\* velocity is taken over the interval since the discarded one.
C16_DeadzoneAdvancesTime ==
    [][ deadzoneSample => lastDragTime' = sampleTime' ]_vars

\* C17: an accepted sample handled as a forward (scrub) seek or as a backward seek
\* leaves the transport rate at 1.0; one handled in speed mode leaves it equal to
\* cwPlaybackRate; and isCWScrub goes from false to true only on an accepted
\* clockwise sample whose velocity is >= cwScrubEnterVel.
C17_ModeRates ==
    [][ /\ (acceptedCW /\ isCWScrub') =>
               (lastOp'.path = "cwSeek" /\ audio'.playbackRate = RateScale)
        /\ (acceptedCW /\ ~isCWScrub') =>
               (lastOp'.path = "cwSpeed" /\ audio'.playbackRate = cwPlaybackRate')
        /\ (lastOp'.op = "drag" /\ lastOp'.path \in {"ccwSeek", "ccwSwitch"}) =>
               audio'.playbackRate = RateScale
        /\ (~isCWScrub /\ isCWScrub') =>
               (acceptedCW /\ angVelAtLeast(sampleDeg, sampleDt, cwScrubEnterVel))
      ]_vars

\* a fast clockwise sample has taken a sped-up drag into scrub mode: the transport
\* is back at 1.0 while the accumulated speed is kept
C17_Witness ==
    /\ lastOp.op = "drag" /\ lastOp.path = "cwSeek" /\ lastOp.scrub = "enter"
    /\ isCWScrub
    /\ audio.playbackRate = RateScale
    /\ cwPlaybackRate > RateScale

\* C18 as stated: the lock goes over to the opposite direction, either way, only
\* when at least the threshold of opposite rotation has accumulated.
C18_StickyBothWays ==
    [][ /\ (directionLock = 1 /\ directionLock' = -1) =>
               (acceptedCCW /\ switchAccumNegDeg + sampleDeg >= switchThresholdDeg)
        /\ (directionLock = -1 /\ directionLock' = 1) =>
               (acceptedCW /\ sampleDeg >= switchThresholdDeg)
      ]_vars

\* C18 amended: the lock is sticky from clockwise to counter-clockwise only.  It goes
\* from 1 to -1 only on an accepted counter-clockwise sample taken with
\* cwPlaybackRate > 1.0 that brings switchAccumNegDeg to switchThresholdDeg or more;
\* a counter-clockwise sample never moves a lock of 1 anywhere else; and a lock of
\* -1 becomes 1 on every accepted clockwise sample, whatever its size.
C18_StickyClockwiseOnly ==
    [][ /\ (directionLock = 1 /\ directionLock' = -1) =>
               /\ acceptedCCW
               /\ cwPlaybackRate > RateScale
               /\ switchAccumNegDeg + sampleDeg >= switchThresholdDeg
        /\ (directionLock = 1 /\ acceptedCCW /\ directionLock' # -1) => directionLock' = 1
        /\ (directionLock = -1 /\ acceptedCW) => directionLock' = 1
        /\ (directionLock = -1 /\ acceptedCCW) => directionLock' = -1
      ]_vars

\* the lock has gone over to counter-clockwise on a single sample of 160 degrees,
\* and the backward seeker has taken its ten steps
C18_Witness ==
    /\ lastOp.op = "drag" /\ lastOp.path = "ccwSwitch"
    /\ directionLock = -1
    /\ switchAccumNegDeg = 160
    /\ lastOp.seconds = 10 * seekStepSeconds

\* C19: whenever directionLock is not 1 (it is 0 or -1), cwPlaybackRate is 1.0 and
\* the scrub flag is false.
C19_SpeedAndScrubOnlyUnderCW ==
    directionLock # 1 => (cwPlaybackRate = RateScale /\ ~isCWScrub)

\* a drag that had sped up has switched to counter-clockwise and goes on seeking back
C19_Witness ==
    /\ directionLock = -1
    /\ isDragging
    /\ lastOp.op = "drag" /\ lastOp.path = "ccwSeek"
    /\ lastOp.seconds > 0

\* C20: whenever no drag is active, audio.playbackRate is 1.0 and equals the
\* playbackRate field; and the idle normalizer never finds a rate to change.
C20_IdleRateIsOne ==
    /\ ~isDragging => (audio.playbackRate = RateScale /\ playbackRate = audio.playbackRate)
    /\ lastOp.path # "normalized"

\* a pointer move with no drag active, media loaded and an earlier drag released
C20_Witness ==
    /\ ~isDragging
    /\ lastOp.op = "drag" /\ lastOp.path = "ignored"
    /\ audio.src /\ audio.duration # NaN
    /\ lastDragTime > 1

====
